---- MODULE Spec2Model ----
(***************************************************************************)
(* Model of new.py: the numeric helpers normalize_number / parse_number,   *)
(* the per-page pipeline process_document and the Flask route              *)
(* extract_bill_data.                                                      *)
(*                                                                         *)
(* Strings are sequences of one-character strings.  Python values that may *)
(* be None are records: None is [none |-> TRUE], a string is [str |-> s],  *)
(* a float is [m |-> mantissa, e |-> decimals] standing for m / 10^e, kept *)
(* normalised (no trailing zero in the mantissa while e > 0) so that record*)
(* equality is numeric equality (1234.50 = 1234.5).  Floats are modelled   *)
(* as exact decimals; binary rounding error is outside the model.          *)
(***************************************************************************)
EXTENDS Integers, Sequences, FiniteSets, TLC

VARIABLES
    p_in,        \* argument handed to the numeric helper
    p_fn,        \* which helper is applied: "parse_number" / "normalize_number"
    p_out,       \* its return value
    p_pc,        \* "ready" before the call, "done" after it
    pc,          \* position of the request handler
    body,        \* request.get_json()
    response,    \* the HTTP response of the current request
    n_pages,     \* len(pages) after rasterization
    raw_pages,   \* per page of the loop so far, the rows its reply carried
    last_reply,  \* how the chat completion of the latest page came out
    final_pages, \* process_document: final_pages
    all_items,   \* process_document: all_items
    total,       \* process_document: total (before rounding)
    fetch,       \* how requests.get / raise_for_status ended: "none" before the call
    calls        \* external calls made for the current request

pvars == <<p_in, p_fn, p_out, p_pc>>
rvars == <<pc, body, response, n_pages, raw_pages, last_reply, final_pages, all_items,
          total, fetch, calls>>
vars == <<p_in, p_fn, p_out, p_pc, pc, body, response, n_pages, raw_pages, last_reply,
          final_pages, all_items, total, fetch, calls>>

----------------------------------------------------------------------------
(* Bounds *)

MaxLen == 4          \* longest string handed to the numeric helpers
MaxPages == 2        \* most pages a document rasterizes into
MaxItems == 2        \* most rows the LLM returns for one document

----------------------------------------------------------------------------
(* Python values *)

None == [none |-> TRUE]

Str(s) == [str |-> s]

Digits == {"0", "7"}

Alphabet == {"0", "7", ",", ".", "-", " ", "x"}

DigitVal(c) == IF c = "7" THEN 7 ELSE 0

RECURSIVE Pow10(_)
Pow10(n) == IF n = 0 THEN 1 ELSE 10 * Pow10(n - 1)

RECURSIVE Norm(_, _)
Norm(m, e) == IF e > 0 /\ m % 10 = 0 THEN Norm(m \div 10, e - 1)
              ELSE [m |-> m, e |-> e]

Mul(a, b) == Norm(a.m * b.m, a.e + b.e)

MaxOf(a, b) == IF a >= b THEN a ELSE b

Add(a, b) == LET e == MaxOf(a.e, b.e)
             IN  Norm(a.m * Pow10(e - a.e) + b.m * Pow10(e - b.e), e)

Zero == [m |-> 0, e |-> 0]

One == [m |-> 1, e |-> 0]

Abs(i) == IF i < 0 THEN -i ELSE i

\* round(x, 2): nearest value with two decimals, ties to even
Round2(v) ==
    IF v.e <= 2 THEN v
    ELSE LET d == Pow10(v.e - 2)
             a == Abs(v.m)
             q == a \div d
             r == a % d
             up == (2 * r > d) \/ (2 * r = d /\ q % 2 = 1)
             qq == IF up THEN q + 1 ELSE q
         IN  Norm(IF v.m < 0 THEN -qq ELSE qq, 2)

----------------------------------------------------------------------------
(* String helpers *)

RECURSIVE RemoveCommas(_)
RemoveCommas(s) ==
    IF s = <<>> THEN <<>>
    ELSE IF Head(s) = "," THEN RemoveCommas(Tail(s))
    ELSE <<Head(s)>> \o RemoveCommas(Tail(s))

RECURSIVE LStrip(_)
LStrip(s) == IF s # <<>> /\ Head(s) = " " THEN LStrip(Tail(s)) ELSE s

RECURSIVE RStrip(_)
RStrip(s) == IF s # <<>> /\ s[Len(s)] = " " THEN RStrip(SubSeq(s, 1, Len(s) - 1)) ELSE s

Strip(s) == RStrip(LStrip(s))

AllDigits(s) == \A i \in 1..Len(s) : s[i] \in Digits

RECURSIVE DigitsVal(_)
DigitsVal(s) == IF s = <<>> THEN 0
                ELSE 10 * DigitsVal(SubSeq(s, 1, Len(s) - 1)) + DigitVal(s[Len(s)])

\* index of the first "." in s, 0 when there is none
FirstDot(s) == IF \E i \in 1..Len(s) : s[i] = "."
               THEN CHOOSE i \in 1..Len(s) : s[i] = "." /\ \A j \in 1..(i - 1) : s[j] # "."
               ELSE 0

\* float(t) on an unsigned literal: digits, digits. , digits.digits , .digits
UnsignedFloat(t) ==
    LET d == FirstDot(t)
        ip == IF d = 0 THEN t ELSE SubSeq(t, 1, d - 1)
        fp == IF d = 0 THEN <<>> ELSE SubSeq(t, d + 1, Len(t))
    IN  IF AllDigits(ip) /\ AllDigits(fp) /\ Len(ip) + Len(fp) > 0
        THEN Norm(DigitsVal(ip \o fp), Len(fp))
        ELSE None

\* float(t): optional sign, then an unsigned literal; None stands for ValueError
FloatOf(t) ==
    IF t # <<>> /\ Head(t) \in {"-", "+"}
    THEN LET u == UnsignedFloat(Tail(t))
         IN  IF u = None THEN None
             ELSE IF Head(t) = "-" THEN Norm(-u.m, u.e) ELSE u
    ELSE UnsignedFloat(t)

normalize_number(s) ==
    IF s = None THEN None
    ELSE FloatOf(Strip(RemoveCommas(s.str)))

HasDigit(s) == \E i \in 1..Len(s) : s[i] \in Digits

FirstDigit(s) == CHOOSE i \in 1..Len(s) : s[i] \in Digits /\ \A j \in 1..(i - 1) : s[j] \notin Digits

\* last index of the run of digits that starts at i
RECURSIVE DigitRunEnd(_, _)
DigitRunEnd(s, i) == IF i < Len(s) /\ s[i + 1] \in Digits THEN DigitRunEnd(s, i + 1) ELSE i

\* re.search(r"\d+(\.\d+)?", s).group(): leftmost match, greedy
RegexMatch(s) ==
    LET i == FirstDigit(s)
        j == DigitRunEnd(s, i)
        k == IF j + 2 <= Len(s) /\ s[j + 1] = "." /\ s[j + 2] \in Digits
             THEN DigitRunEnd(s, j + 2) ELSE j
    IN  SubSeq(s, i, k)

\* variant: a "-" right before the first digit run is kept as the sign
parse_number_signed(s) ==
    IF s = None THEN None
    ELSE IF HasDigit(s.str)
    THEN LET i == FirstDigit(s.str)
             v == normalize_number(Str(RegexMatch(s.str)))
         IN  IF i > 1 /\ s.str[i - 1] = "-" THEN Norm(-v.m, v.e) ELSE v
    ELSE None

parse_number(s) ==
    IF s = None THEN None
    ELSE IF HasDigit(s.str) THEN normalize_number(Str(RegexMatch(s.str)))
    ELSE None

----------------------------------------------------------------------------
(* The helpers applied to every short string *)

RECURSIVE StringsUpTo(_)
StringsUpTo(n) ==
    IF n = 0 THEN {<<>>}
    ELSE LET prev == StringsUpTo(n - 1)
         IN  prev \cup {Append(s, c) : s \in {t \in prev : Len(t) = n - 1}, c \in Alphabet}

HelperArgs == {None} \cup {Str(s) : s \in StringsUpTo(MaxLen)}

NoRequest == [none |-> TRUE]

NoCalls == [download |-> 0, rasterize |-> 0, ocr |-> 0, llm |-> 0]

RequestInit ==
    /\ pc = "idle"
    /\ body = None
    /\ response = NoRequest
    /\ n_pages = 0
    /\ raw_pages = <<>>
    /\ last_reply = "not_called"
    /\ final_pages = <<>>
    /\ all_items = <<>>
    /\ total = Zero
    /\ fetch = "none"
    /\ calls = NoCalls

HelperInit ==
    /\ p_in \in HelperArgs
    /\ p_fn \in {"parse_number", "normalize_number"}
    /\ p_out = None
    /\ p_pc = "ready"

CallParseNumber ==
    /\ p_pc = "ready"
    /\ p_fn = "parse_number"
    /\ p_out' = parse_number(p_in)
    /\ p_pc' = "done"
    /\ UNCHANGED <<p_in, p_fn>>
    /\ UNCHANGED rvars

CallNormalizeNumber ==
    /\ p_pc = "ready"
    /\ p_fn = "normalize_number"
    /\ p_out' = normalize_number(p_in)
    /\ p_pc' = "done"
    /\ UNCHANGED <<p_in, p_fn>>
    /\ UNCHANGED rvars

InitHelpers == HelperInit /\ RequestInit

NextHelpers == CallParseNumber \/ CallNormalizeNumber

SpecHelpers == InitHelpers /\ [][NextHelpers]_vars

----------------------------------------------------------------------------
(* The request: POST /extract-bill-data *)

\* request.get_json(): nothing / null, a JSON object (its keys), a JSON array (its elements)
Bodies ==
    { None,
      [type |-> "object", members |-> {}],
      [type |-> "object", members |-> {"other"}],
      [type |-> "object", members |-> {"document"}, ext |-> ".pdf"],
      [type |-> "object", members |-> {"document"}, ext |-> ""],
      [type |-> "array", members |-> {"document"}] }

\* not body
Falsy(b) == b = None \/ b.members = {}

\* "document" in body
Contains(b, k) == k \in b.members

\* the values the LLM puts in a quantity or rate field, as str() shows them
RawValues == {None, Str(<<"0">>), Str(<<"-", "7", ".", "7">>)}

\* the values the LLM puts in an amount field
RawAmounts == {None, Str(<<"-", "7", ".", "7">>)}

NotADict == [not_a_dict |-> TRUE]

\* the rows of a reply: a named row with any numeric fields, and the row {} (every r.get is None)
RawRows == [item_name : {Str(<<"x">>)}, item_quantity : RawValues,
            item_rate : RawValues, item_amount : RawAmounts]
           \cup {[item_name |-> None, item_quantity |-> None,
                  item_rate |-> None, item_amount |-> None]}

IsDict(r) == "item_name" \in DOMAIN r

RECURSIVE SeqsUpTo(_, _)
SeqsUpTo(S, n) ==
    IF n = 0 THEN {<<>>}
    ELSE LET prev == SeqsUpTo(S, n - 1)
         IN  prev \cup {Append(q, x) : q \in {t \in prev : Len(t) = n - 1}, x \in S}

\* what comes back from the chat completion for one page
LLMOutcomes(budget) ==
    {[kind |-> k, rows |-> <<>>] :
        k \in {"llm_throws", "no_json_object", "invalid_json",
               "empty_object", "no_rows_key", "rows_null"}}
    \cup {[kind |-> "rows_list", rows |-> q] : q \in SeqsUpTo(RawRows, budget)}
    \cup {[kind |-> "rows_list", rows |-> <<NotADict>>]}

\* groq_extract_table: None on any exception, else the decoded object
groq_extract_table(reply) ==
    IF reply.kind \in {"llm_throws", "no_json_object", "invalid_json"}
    THEN None
    ELSE [obj |-> reply.kind, rows |-> reply.rows]

\* truth value of `structured`: None and {} are false
Truthy(structured) == structured # None /\ structured.obj # "empty_object"

\* structured["rows"] can be read and iterated
RowsIterable(structured) == structured.obj = "rows_list"

\* variant: the amount is recomputed whenever quantity and rate are both there
ItemRecomputed(r) ==
    LET qty == parse_number(r.item_quantity)
        rate == parse_number(r.item_rate)
        amt == parse_number(r.item_amount)
    IN  [item_name |-> r.item_name,
         item_quantity |-> qty,
         item_rate |-> rate,
         item_amount |-> IF qty # None /\ rate # None THEN Mul(qty, rate) ELSE amt]

\* lines 115-128: one finalized item
Item(r) ==
    LET qty == parse_number(r.item_quantity)
        rate == parse_number(r.item_rate)
        amt == parse_number(r.item_amount)
    IN  [item_name |-> r.item_name,
         item_quantity |-> qty,
         item_rate |-> rate,
         item_amount |-> IF amt = None /\ qty # None /\ rate # None
                         THEN Mul(qty, rate) ELSE amt]

\* the inner for loop, when every row is a dict
RECURSIVE Items(_)
Items(rows) == IF rows = <<>> THEN <<>>
               ELSE <<Item(Head(rows))>> \o Items(Tail(rows))

AllDicts(rows) == \A i \in 1..Len(rows) : IsDict(rows[i])

\* variant: enumerate(pages) without start=1
AppendPageZeroBased(fp, idx, items) == Append(fp, [page_no |-> idx - 1, bill_items |-> items])

\* final_pages.append({"page_no": idx, "bill_items": items})
AppendPage(fp, idx, items) == Append(fp, [page_no |-> idx, bill_items |-> items])

\* variant: all_items = items
ExtendItemsAssign(ai, items) == items

\* all_items.extend(items)
ExtendItems(ai, items) == ai \o items

\* x or d
OrDefault(x, d) == IF x = None \/ x = Zero THEN d ELSE x

\* variant: rate = it["item_rate"] or 1
TotalStepRateOne(t, it) ==
    LET qty == OrDefault(it.item_quantity, One)
        rate == OrDefault(it.item_rate, One)
        amt == IF it.item_amount = None THEN Mul(qty, rate) ELSE it.item_amount
    IN  Add(t, amt)

\* lines 136-144: one iteration of the total loop
TotalStep(t, it) ==
    LET qty == OrDefault(it.item_quantity, One)
        rate == OrDefault(it.item_rate, Zero)
        amt == IF it.item_amount = None THEN Mul(qty, rate) ELSE it.item_amount
    IN  Add(t, amt)

RECURSIVE TotalLoop(_, _)
TotalLoop(t, items) == IF items = <<>> THEN t
                       ELSE TotalLoop(TotalStep(t, Head(items)), Tail(items))

\* variant: the total loop stores its defaults back into the items
FillDefaults(it) ==
    [it EXCEPT !.item_quantity = IF @ = None THEN One ELSE @,
               !.item_rate = IF @ = None THEN Zero ELSE @]

SuccessResponseFilled(fp, ai, t) ==
    [status |-> 200, is_success |-> TRUE,
     data |-> [pagewise_line_items |->
                   [k \in 1..Len(fp) |->
                       [page_no |-> fp[k].page_no,
                        bill_items |-> [i \in 1..Len(fp[k].bill_items) |->
                                           FillDefaults(fp[k].bill_items[i])]]],
               total_item_count |-> Len(ai),
               reconciled_amount |-> Round2(t)]]

SuccessResponse(fp, ai, t) ==
    [status |-> 200, is_success |-> TRUE,
     data |-> [pagewise_line_items |-> fp,
               total_item_count |-> Len(ai),
               reconciled_amount |-> Round2(t)]]

ErrorResponse(msg) == [status |-> 400, is_success |-> FALSE, error |-> msg]

\* an exception that leaves the view function: Flask answers 500 with its error page
UnhandledException(e) == [status |-> 500, exception |-> e]

Request(b) ==
    /\ pc \in {"idle", "responded"}
    /\ pc' = "validate"
    /\ body' = b
    /\ response' = NoRequest
    /\ n_pages' = 0
    /\ raw_pages' = <<>>
    /\ last_reply' = "not_called"
    /\ final_pages' = <<>>
    /\ all_items' = <<>>
    /\ total' = Zero
    /\ fetch' = "none"
    /\ calls' = NoCalls
    /\ UNCHANGED pvars

\* lines 160-163
Validate ==
    /\ pc = "validate"
    /\ IF Falsy(body) \/ ~Contains(body, "document")
       THEN /\ response' = ErrorResponse("Missing 'document'")
            /\ pc' = "responded"
       ELSE IF body.type # "object"
       THEN /\ response' = UnhandledException("TypeError")
            /\ pc' = "responded"
       ELSE /\ pc' = "download"
            /\ UNCHANGED response
    /\ UNCHANGED <<body, n_pages, raw_pages, last_reply, final_pages, all_items, total, fetch, calls>>
    /\ UNCHANGED pvars

\* lines 165-169
Download(outcome) ==
    /\ pc = "download"
    /\ calls' = [calls EXCEPT !.download = @ + 1]
    /\ fetch' = outcome
    /\ IF outcome = "ok"
       THEN /\ pc' = "rasterize"
            /\ UNCHANGED response
       ELSE /\ response' = ErrorResponse("Download failed")
            /\ pc' = "responded"
    /\ UNCHANGED <<body, n_pages, raw_pages, last_reply, final_pages, all_items, total>>
    /\ UNCHANGED pvars

\* line 171
Ext(b) == IF b.ext = "" THEN ".png" ELSE b.ext

\* pages_from_bytes: the page counts each branch can produce
PageCounts(ext) == IF ext = ".pdf" THEN 0..MaxPages ELSE {1}

\* line 100; n = -1 stands for the rasterizer raising
Rasterize(n) ==
    /\ pc = "rasterize"
    /\ calls' = [calls EXCEPT !.rasterize = @ + 1]
    /\ IF n = -1
       THEN /\ response' = UnhandledException("RasterizeError")
            /\ pc' = "responded"
            /\ UNCHANGED n_pages
       ELSE /\ n \in PageCounts(Ext(body))
            /\ n_pages' = n
            /\ pc' = "pages"
            /\ UNCHANGED response
    /\ UNCHANGED <<body, raw_pages, last_reply, final_pages, all_items, total, fetch>>
    /\ UNCHANGED pvars

\* an exception leaves process_document: its locals are gone
Unwind ==
    /\ final_pages' = <<>>
    /\ all_items' = <<>>
    /\ raw_pages' = <<>>

\* lines 105-107 when pytesseract raises
OcrFails ==
    /\ pc = "pages"
    /\ Len(final_pages) < n_pages
    /\ calls' = [calls EXCEPT !.ocr = @ + 1]
    /\ last_reply' = "not_called"
    /\ response' = UnhandledException("TesseractError")
    /\ pc' = "responded"
    /\ Unwind
    /\ UNCHANGED <<body, n_pages, total, fetch>>
    /\ UNCHANGED pvars

\* lines 107-131 for the reply the LLM gives on this page
PageBody(reply) ==
    /\ calls' = [calls EXCEPT !.ocr = @ + 1, !.llm = @ + 1]
    /\ last_reply' = reply.kind
    /\ LET idx == Len(final_pages) + 1
           structured == groq_extract_table(reply)
       IN  IF ~Truthy(structured)
           THEN /\ final_pages' = AppendPage(final_pages, idx, <<>>)
                /\ raw_pages' = Append(raw_pages, <<>>)
                /\ UNCHANGED <<all_items, response, pc>>
           ELSE IF structured.obj = "no_rows_key"
           THEN /\ response' = UnhandledException("KeyError")
                /\ pc' = "responded"
                /\ Unwind
           ELSE IF ~RowsIterable(structured)
           THEN /\ response' = UnhandledException("TypeError")
                /\ pc' = "responded"
                /\ Unwind
           ELSE IF ~AllDicts(structured.rows)
           THEN /\ response' = UnhandledException("AttributeError")
                /\ pc' = "responded"
                /\ Unwind
           ELSE /\ final_pages' = AppendPage(final_pages, idx, Items(structured.rows))
                /\ all_items' = ExtendItems(all_items, Items(structured.rows))
                /\ raw_pages' = Append(raw_pages, structured.rows)
                /\ UNCHANGED <<response, pc>>

\* lines 105-131: one iteration of the page loop
ProcessPage ==
    /\ pc = "pages"
    /\ Len(final_pages) < n_pages
    /\ \E reply \in LLMOutcomes(MaxItems - Len(all_items)) : PageBody(reply)
    /\ UNCHANGED <<body, n_pages, total, fetch>>
    /\ UNCHANGED pvars

\* lines 133-153 and jsonify
Finish ==
    /\ pc = "pages"
    /\ Len(final_pages) = n_pages
    /\ total' = TotalLoop(Zero, all_items)
    /\ response' = SuccessResponse(final_pages, all_items, total')
    /\ pc' = "responded"
    /\ UNCHANGED <<body, n_pages, raw_pages, last_reply, final_pages, all_items, fetch, calls>>
    /\ UNCHANGED pvars

HelperIdle ==
    /\ p_in = None
    /\ p_fn = "parse_number"
    /\ p_out = None
    /\ p_pc = "done"

Init == HelperIdle /\ RequestInit

Next ==
    \/ \E b \in Bodies : Request(b)
    \/ Validate
    \/ \E o \in {"ok", "raises", "bad_status"} : Download(o)
    \/ \E n \in -1..MaxPages : Rasterize(n)
    \/ OcrFails
    \/ ProcessPage
    \/ Finish

Spec == Init /\ [][Next]_vars

----------------------------------------------------------------------------
(* Properties *)

Success == pc = "responded" /\ "data" \in DOMAIN response

RECURSIVE FlatItems(_)
FlatItems(pages) == IF pages = <<>> THEN <<>>
                    ELSE Head(pages).bill_items \o FlatItems(Tail(pages))

RECURSIVE SumLens(_)
SumLens(pages) == IF pages = <<>> THEN 0
                  ELSE Len(Head(pages).bill_items) + SumLens(Tail(pages))

\* last index of the run of digits and digit-enclosed commas that starts at i
RECURSIVE GroupedRunEnd(_, _)
GroupedRunEnd(s, i) ==
    IF i < Len(s) /\ s[i + 1] \in Digits THEN GroupedRunEnd(s, i + 1)
    ELSE IF i + 2 <= Len(s) /\ s[i + 1] = "," /\ s[i + 2] \in Digits
    THEN GroupedRunEnd(s, i + 2)
    ELSE i

\* the value of the leading number of s, thousands separators removed
LeadingNumber(s) ==
    LET i == FirstDigit(s)
        j == GroupedRunEnd(s, i)
        k == IF j + 2 <= Len(s) /\ s[j + 1] = "." /\ s[j + 2] \in Digits
             THEN DigitRunEnd(s, j + 2) ELSE j
    IN  UnsignedFloat(RemoveCommas(SubSeq(s, i, k)))

\* C1: for every string with a leading number, possibly preceded by
\* non-digits and written with thousands separators, parse_number returns
\* the value of that whole number with the separators removed.
C1_ParseRemovesSeparators ==
    (p_pc = "done" /\ p_fn = "parse_number" /\ p_in # None /\ HasDigit(p_in.str))
        => p_out = LeadingNumber(p_in.str)

\* effective amount of an item, defaults decided by presence
EffectiveAmount(it) ==
    LET q == IF it.item_quantity # None THEN it.item_quantity ELSE One
        r == IF it.item_rate # None THEN it.item_rate ELSE Zero
    IN  IF it.item_amount # None THEN it.item_amount ELSE Mul(q, r)

RECURSIVE SumEffective(_)
SumEffective(items) == IF items = <<>> THEN Zero
                       ELSE Add(EffectiveAmount(Head(items)), SumEffective(Tail(items)))

\* C2: the total accumulated before rounding is the sum over all finalized
\* items of the effective amount, where presence (not truthiness) of the
\* quantity and the rate decides the defaults 1 and 0.
C2_TotalIsSumOfEffectiveAmounts ==
    Success => total = SumEffective(FlatItems(response.data.pagewise_line_items))

\* two items, one of them with quantity present and 0, no rate, no amount
C2_Witness ==
    /\ Success
    /\ Len(all_items) >= 2
    /\ \E i \in 1..Len(all_items) :
          /\ all_items[i].item_quantity = Zero
          /\ all_items[i].item_rate = None
          /\ all_items[i].item_amount = None
    /\ total.m > 0

\* C3: in every success response total_item_count is the sum of the lengths
\* of bill_items over all entries of pagewise_line_items.
C3_CountIsSumOfPageLengths ==
    Success => response.data.total_item_count
                   = SumLens(response.data.pagewise_line_items)

ExtractionFailureKinds ==
    {"llm_throws", "no_json_object", "invalid_json",
     "empty_object", "no_rows_key", "rows_null"}

\* two pages: one whose extraction failed, one carrying two items
C3_Witness ==
    /\ Success
    /\ Len(raw_pages) = 2
    /\ last_reply \in ExtractionFailureKinds
    /\ response.data.total_item_count = 2

\* C4: a success response for a document of N pages has exactly N entries,
\* the k-th with page_no = k and the items of the k-th rasterized page,
\* also for pages whose extraction failed or gave no rows.
C4_PagesInOrder ==
    Success =>
        LET pw == response.data.pagewise_line_items
        IN  /\ Len(pw) = n_pages
            /\ \A k \in 1..Len(pw) :
                  /\ pw[k].page_no = k
                  /\ pw[k].bill_items = Items(raw_pages[k])

C4_Witness ==
    /\ Success
    /\ n_pages = 2
    /\ last_reply \in ExtractionFailureKinds
    /\ Len(response.data.pagewise_line_items[1].bill_items) >= 1
    /\ response.data.pagewise_line_items[2].bill_items = <<>>

\* C5: a page whose structured extraction failed gets an empty bill_items
\* list and the loop goes on; the failure never aborts the request, which
\* still ends in a success response.
C5_ExtractionFailureIsLocal ==
    last_reply \in ExtractionFailureKinds =>
        /\ pc \in {"pages", "responded"}
        /\ pc = "responded" => Success
        /\ Len(final_pages) = calls.llm
        /\ final_pages[Len(final_pages)].bill_items = <<>>

HasDocument(b) == b # None /\ b.type = "object" /\ "document" \in b.members

Is400(r) ==
    /\ r.status = 400
    /\ "is_success" \in DOMAIN r
    /\ r.is_success = FALSE
    /\ "error" \in DOMAIN r

\* C6: a request whose body is absent or has no document field, or whose
\* download raises or returns a non-success status, is answered 400 with
\* is_success = false and an error, and no later stage has run.
C6_FailFast ==
    pc = "responded" =>
        /\ ~HasDocument(body) => (Is400(response) /\ calls = NoCalls)
        /\ fetch \in {"raises", "bad_status"} =>
              /\ Is400(response)
              /\ calls.rasterize = 0 /\ calls.ocr = 0 /\ calls.llm = 0

Envelope(r) ==
    /\ "is_success" \in DOMAIN r
    /\ \/ r.is_success /\ "data" \in DOMAIN r
       \/ ~r.is_success /\ "error" \in DOMAIN r

\* C7: every response is an envelope (is_success with data, or not
\* is_success with error), and after any response the next request is served.
C7_EveryResponseIsEnvelope ==
    pc = "responded" => (Envelope(response) /\ ENABLED (\E b \in Bodies : Request(b)))

\* the item the reconciler is to emit for a raw row
ExpectedItem(r) ==
    LET q == parse_number(r.item_quantity)
        t == parse_number(r.item_rate)
        a == parse_number(r.item_amount)
    IN  [item_name |-> r.item_name,
         item_quantity |-> q,
         item_rate |-> t,
         item_amount |-> IF a # None THEN a
                         ELSE IF q # None /\ t # None THEN Mul(q, t)
                         ELSE None]

\* C8: every emitted item has the parsed quantity and rate, the raw name, and
\* as amount the parsed amount when present, else quantity x rate when both
\* are present, else null; so a null amount means a null quantity or rate.
C8_EmittedItem ==
    \A k \in 1..Len(final_pages) :
        /\ Len(final_pages[k].bill_items) = Len(raw_pages[k])
        /\ \A i \in 1..Len(final_pages[k].bill_items) :
              LET it == final_pages[k].bill_items[i]
              IN  /\ it = ExpectedItem(raw_pages[k][i])
                  /\ it.item_amount = None =>
                        (it.item_quantity = None \/ it.item_rate = None)

\* an item whose amount was present and differs from quantity x rate
C8_Witness ==
    \E k \in 1..Len(final_pages) : \E i \in 1..Len(final_pages[k].bill_items) :
        LET it == final_pages[k].bill_items[i]
        IN  /\ it.item_quantity # None /\ it.item_rate # None
            /\ it.item_amount # None
            /\ it.item_amount # Mul(it.item_quantity, it.item_rate)

\* C9: an item is immutable once appended: while process_document runs,
\* later pages and the total leave every already emitted page as it was, and
\* the response carries the items exactly as emitted (null fields stay null).
C9_ItemsImmutable ==
    [][(pc = "pages" /\ "exception" \notin DOMAIN response') =>
          /\ \A k \in 1..Len(final_pages) :
                k <= Len(final_pages') /\ final_pages'[k] = final_pages[k]
          /\ (pc' = "responded" /\ "data" \in DOMAIN response') =>
                response'.data.pagewise_line_items = final_pages]_vars

\* a response of two pages where a first-page item has null quantity, rate and amount
\* although the total counted it with the defaults
C9_Witness ==
    /\ Success
    /\ Len(response.data.pagewise_line_items) = 2
    /\ Len(response.data.pagewise_line_items[1].bill_items) >= 1
    /\ response.data.pagewise_line_items[1].bill_items[1].item_quantity = None
    /\ response.data.pagewise_line_items[1].bill_items[1].item_amount = None
    /\ Len(response.data.pagewise_line_items[2].bill_items) >= 1

NonNegative(v) == v = None \/ v.m >= 0

\* C10: no emitted quantity, rate or amount is negative, and neither is
\* reconciled_amount, whatever signs the extractor returned.
C10_NothingNegative ==
    /\ \A k \in 1..Len(final_pages) : \A i \in 1..Len(final_pages[k].bill_items) :
          LET it == final_pages[k].bill_items[i]
          IN  /\ NonNegative(it.item_quantity)
              /\ NonNegative(it.item_rate)
              /\ NonNegative(it.item_amount)
    /\ Success =>
          /\ response.data.reconciled_amount.m >= 0
          /\ \A i \in 1..Len(FlatItems(response.data.pagewise_line_items)) :
                LET it == FlatItems(response.data.pagewise_line_items)[i]
                IN  /\ NonNegative(it.item_quantity)
                    /\ NonNegative(it.item_rate)
                    /\ NonNegative(it.item_amount)

\* a response for a row whose amount the extractor returned with a minus sign
C10_Witness ==
    /\ Success
    /\ \E k \in 1..Len(raw_pages) : \E i \in 1..Len(raw_pages[k]) :
          /\ raw_pages[k][i].item_amount = Str(<<"-", "7", ".", "7">>)
          /\ response.data.pagewise_line_items[k].bill_items[i].item_amount
                 = [m |-> 77, e |-> 1]
    /\ response.data.reconciled_amount.m > 0

====
